---- MODULE Spec2Model ----
(***************************************************************************)
(* Premium entitlement resolution (PremiumProvider.fetchPremiumStatus) and *)
(* the in-app purchase service (IAPService) it relies on.                  *)
(*                                                                         *)
(* Optional values (undefined / null) are sets with at most one element:   *)
(* None is absent, Some(x) is present.  A JavaScript error object is a     *)
(* record of its optional message, code and errorCode.  Messages coming    *)
(* from the SDK are sequences of one-character strings, so that            *)
(* toLowerCase and includes are computed; messages the program itself      *)
(* produces are sequences of literal segments.                             *)
(***************************************************************************)
EXTENDS Bags, Integers, Sequences, FiniteSets, TLC

\* ------------------------------------------------------------------ bounds
MaxTime == 1
MaxConfigures == 2
MaxAuthCalls == 2
MaxFetches == 2

\* ------------------------------------------------------------------ values
None == {}
Some(x) == {x}
Val(o) == CHOOSE x \in o : TRUE
Opt(S) == {None} \cup {Some(x) : x \in S}

Users == {"u1", "u2"}
Times == 0..MaxTime

\* A date string in one of two spellings of the same instant.
SdkDates == [form : {"short", "iso"}, t : Times]
IsoDates == [form : {"iso"}, t : Times]

\* new Date(str): the instant a date string denotes.
ParseDate(str) == str.t

\* Date.prototype.toISOString(): the canonical spelling of an instant.
ToISOString(t) == [form |-> "iso", t |-> t]

\* ------------------------------------------------------------------ strings
Lower(c) ==
  CASE c = "C" -> "c" [] c = "A" -> "a" [] c = "N" -> "n" [] c = "E" -> "e"
    [] c = "L" -> "l" [] c = "U" -> "u" [] c = "S" -> "s" [] c = "R" -> "r"
    [] c = "T" -> "t" [] c = "D" -> "d"
    [] OTHER -> c

\* String.prototype.toLowerCase()
ToLowerCase(s) == [i \in 1..Len(s) |-> Lower(s[i])]

\* String.prototype.includes(sub)
Includes(s, sub) ==
  \E i \in 1..(Len(s) + 1) :
    /\ i + Len(sub) - 1 <= Len(s)
    /\ SubSeq(s, i, i + Len(sub) - 1) = sub

CancelWord == <<"c", "a", "n", "c", "e", "l">>

MsgNet == <<"N", "e", "t">>
MsgCancelled == <<"N", "o", " ", "C", "A", "N", "c", "e", "l">>
MsgCanc == <<"c", "a", "n", "c">>

Err(m, c, ec) == [message |-> m, code |-> c, errorCode |-> ec]

\* Error objects the SDK may throw from the catalog query and the purchase:
\* each of message, code and errorCode may be missing.
Errors ==
  { Err(Some(MsgNet), None, None),
    Err(None, None, None),
    Err(Some(MsgCanc), Some("NETWORK_ERROR"), None),
    Err(Some(MsgCancelled), None, None),
    Err(Some(MsgCancelled), Some("NETWORK_ERROR"), None),
    Err(Some(MsgNet), Some("USER_CANCELLED"), None),
    Err(None, Some("USER_CANCELLED"), None),
    Err(Some(MsgNet), None, Some("USER_CANCELLED")),
    Err(Some(MsgNet), Some("NETWORK_ERROR"), Some("USER_CANCELLED")) }

\* Errors of the SDK load, configure, restore and customer-info calls.
NetError == [message |-> Some(<<"N", "e", "t">>), code |-> None, errorCode |-> None]
BareError == [message |-> None, code |-> None, errorCode |-> None]
InfraErrors == {NetError, BareError}

MissingKeyError ==
  [message |-> Some(<<"[IAP] Missing RevenueCat API key.">>), code |-> None, errorCode |-> None]

\* IAP_PRODUCT_IDS (a monthly subscription, the lifetime product, a bundle)
ProductIds == {"cozy_premium_monthly", "lifetime", "com.cozyhabits.app.points.500"}

\* ------------------------------------------------------------------ state
VARIABLES
  isNative,          \* IAPService.isNative
  currentPlatform,   \* IAPService.currentPlatform
  googleKey,         \* VITE_REVENUECAT_PUBLIC_GOOGLE_KEY
  appleKey,          \* VITE_REVENUECAT_PUBLIC_APPLE_KEY
  svc,               \* IAPService.configured, IAPService.appUserId and the SDK's state
  user,              \* useAuth().user (its id)
  isPremium,         \* PremiumProvider state
  isLoading,         \* PremiumProvider state
  mounted,           \* the provider's mount effect has run
  profiles,          \* the remote 'profiles' rows, by id
  lastOp,            \* the operation that ran last
  lastArg,           \* its argument
  threw,             \* the error it rejected with, if any
  result,            \* the value it returned
  sdkCalls,          \* the SDK calls it made, in order
  dbOps,             \* the cache-store requests it made, in order
  lastNow,           \* the value of new Date() it observed
  mode,              \* Auth form: 'signin' | 'signup'
  email,             \* Auth form: the email field
  password,          \* Auth form: the password field
  isSubmitting,      \* Auth form: a submission is in progress
  authCalls,         \* signUp / signIn calls awaiting their answer
  authLog,           \* what the latest handleSubmit did, in order
  reloadTimer,       \* the reload scheduled after a sign-in is pending
  flights,           \* fetchPremiumStatus calls suspended at an await
  lastReported,      \* per identity, what the SDK reported last to a call for it
  lastWrite,         \* per identity, the payload of the update that completed last
  nFetches           \* fetchPremiumStatus calls started for a signed-in user

formVars == <<mode, email, password, isSubmitting, authCalls, authLog, reloadTimer>>
asyncVars == <<flights, lastReported, lastWrite, nFetches>>

vars == <<isNative, currentPlatform, googleKey, appleKey, svc, user, isPremium,
          isLoading, mounted, profiles, lastOp, lastArg, threw, result,
          sdkCalls, dbOps, lastNow, mode, email, password, isSubmitting,
          authCalls, authLog, reloadTimer, flights, lastReported, lastWrite,
          nFetches>>

envVars == <<isNative, currentPlatform, googleKey, appleKey>>
providerVars == <<user, isPremium, isLoading, mounted, profiles>>

\* ------------------------------------------------------------------ IAPService
\* Capacitor.getPlatform() mapped to the three platform tags.
getCurrentPlatform(capPlatform) ==
  IF capPlatform = "ios" THEN "apple"
  ELSE IF capPlatform = "android" THEN "google"
  ELSE "web"

\* Capacitor.isNativePlatform()
isNativePlatform(capPlatform) == capPlatform \in {"ios", "android"}

isAvailable_always == TRUE

isAvailable == isNative

getApiKey ==
  IF currentPlatform = "google" THEN googleKey
  ELSE IF currentPlatform = "apple" THEN appleKey
  ELSE None

\* The service as constructed: not configured, no identity associated.
NewService ==
  [configured |-> FALSE, appUserId |-> None, sdkLoaded |-> FALSE,
   sdkConfig |-> <<>>, nConfigured |-> 0]

\* setAppUserId(appUserId): '' and undefined both dissociate the identity.
setAppUserId(s, id) ==
  LET new == IF id = None \/ id = Some("") THEN None ELSE id
  IN [s EXCEPT !.appUserId = new,
               !.configured = FALSE,
               !.nConfigured = IF new = s.appUserId THEN @ ELSE 0]

\* sdk(): the dynamic import; once loaded the module stays loaded.
sdk(s, outcome) ==
  IF s.sdkLoaded \/ outcome = None
  THEN [threw |-> None, s |-> [s EXCEPT !.sdkLoaded = TRUE], calls |-> <<[fn |-> "import", ok |-> TRUE]>>]
  ELSE [threw |-> outcome, s |-> s, calls |-> <<[fn |-> "import", ok |-> FALSE]>>]

\* Outcomes of the calls ensureConfigured makes: the import and configure
\* (configure matters only when the import succeeds; the outcome of
\* setLogLevel is discarded by its own try/catch).
CfgEnvsOf(E) ==
  {[load |-> Some(x), configure |-> None] : x \in E}
    \cup [load : {None}, configure : Opt(E)]

Min(a, b) == IF a < b THEN a ELSE b

ensureConfigured(s, e) ==
  IF ~isNative THEN [threw |-> None, s |-> s, calls |-> <<>>]
  ELSE IF s.configured THEN [threw |-> None, s |-> s, calls |-> <<>>]
  ELSE IF getApiKey = None THEN [threw |-> Some(MissingKeyError), s |-> s, calls |-> <<>>]
  ELSE
    LET ld == sdk(s, e.load) IN
    IF ld.threw # None THEN ld
    ELSE
      LET calls == ld.calls
                     \o <<[fn |-> "setLogLevel"]>>
                     \o <<[fn |-> "configure", appUserID |-> s.appUserId, ok |-> e.configure = None]>>
      IN IF e.configure # None
         THEN [threw |-> e.configure, s |-> ld.s, calls |-> calls]
         ELSE [threw |-> None,
               s |-> [ld.s EXCEPT !.configured = TRUE,
                                  !.sdkConfig = <<s.appUserId>>,
                                  !.nConfigured = Min(@ + 1, MaxConfigures)],
               calls |-> calls]

\* ---- customer info
\* Entitlement objects as the SDK reports them: either expiry field may be
\* missing, and the two may disagree.
Entitlements ==
  [expirationDate : Opt(SdkDates), expiresDate : {None},
   productIdentifier : {Some("lifetime")}]
    \cup [expirationDate : {None, Some([form |-> "short", t |-> MaxTime])},
          expiresDate : {Some([form |-> "iso", t |-> 0])},
          productIdentifier : {Some("lifetime")}]
    \cup {[expirationDate |-> None, expiresDate |-> None, productIdentifier |-> None]}

OtherEntitlement ==
  [expirationDate |-> None, expiresDate |-> None,
   productIdentifier |-> Some("cozy_premium_monthly")]

LifetimeEntitlement ==
  [expirationDate |-> None, expiresDate |-> None,
   productIdentifier |-> Some("lifetime")]

\* customerInfo.entitlements.active, as its entries in key order.
\* An entry's value is an entitlement object or, under schema drift, null.
ActiveMaps ==
  {<<>>,
   <<[name |-> "pro", ent |-> Some(OtherEntitlement)]>>,
   <<[name |-> "premium", ent |-> None]>>,
   <<[name |-> "pro", ent |-> Some(OtherEntitlement)],
     [name |-> "premium", ent |-> Some(LifetimeEntitlement)]>>,
   <<[name |-> "premium", ent |-> Some(LifetimeEntitlement)],
     [name |-> "pro", ent |-> Some(OtherEntitlement)]>>}
    \cup {<<[name |-> "premium", ent |-> Some(e)]>> : e \in Entitlements}

\* customerInfo?.entitlements?.active?.premium
PremiumOf(active) ==
  LET hits == {i \in 1..Len(active) : active[i].name = "premium"}
  IN IF hits = {} THEN None ELSE active[Val(hits)].ent

entitlementStatus_expiresDateFirst(premiumEntitlement) ==
  [isPremium |-> premiumEntitlement # None,
   expiresAt |->
     IF premiumEntitlement = None THEN None
     ELSE IF Val(premiumEntitlement).expiresDate # None
          THEN Val(premiumEntitlement).expiresDate
          ELSE Val(premiumEntitlement).expirationDate]

\* const isPremium = !!premiumEntitlement;
\* const expiresAt = premiumEntitlement?.expirationDate || premiumEntitlement?.expiresDate || null;
entitlementStatus(premiumEntitlement) ==
  [isPremium |-> premiumEntitlement # None,
   expiresAt |->
     IF premiumEntitlement = None THEN None
     ELSE IF Val(premiumEntitlement).expirationDate # None
          THEN Val(premiumEntitlement).expirationDate
          ELSE Val(premiumEntitlement).expiresDate]

\* Outcomes of the calls checkPremiumStatus makes: those of ensureConfigured,
\* then getCustomerInfo failing or returning customer info.
InfoEnvsOf(E) ==
  [cfg : {c \in CfgEnvsOf(E) : c.load # None \/ c.configure # None}, err : {None}, active : {<<>>}]
    \cup [cfg : {c \in CfgEnvsOf(E) : c.load = None /\ c.configure = None},
          err : {None}, active : ActiveMaps]
    \cup [cfg : {c \in CfgEnvsOf(E) : c.load = None /\ c.configure = None},
          err : Opt(E) \ {None}, active : {<<>>}]

\* checkPremiumStatus(): never rejects; any failure is "not premium".
checkPremiumStatus(s, e) ==
  IF ~isNative
  THEN [threw |-> None, s |-> s, calls |-> <<>>,
        value |-> [isPremium |-> FALSE, expiresAt |-> None]]
  ELSE
    LET failed(s1, calls) ==
          [threw |-> None, s |-> s1, calls |-> calls,
           value |-> [isPremium |-> FALSE, expiresAt |-> None]]
        ec == ensureConfigured(s, e.cfg)
    IN IF ec.threw # None THEN failed(ec.s, ec.calls)
       ELSE
         LET ld == sdk(ec.s, e.cfg.load) IN
         IF ld.threw # None THEN failed(ld.s, ec.calls \o ld.calls)
         ELSE
           LET calls == ec.calls \o ld.calls \o <<[fn |-> "getCustomerInfo", ok |-> e.err = None, active |-> e.active]>>
           IN IF e.err # None THEN failed(ld.s, calls)
              ELSE
                [threw |-> None, s |-> ld.s, calls |-> calls,
                 value |-> entitlementStatus(PremiumOf(e.active))]

\* ---- catalog
Pkg(prod, id) == [product |-> prod, identifier |-> id]
Prod(id, pid) == [identifier |-> id, productIdentifier |-> pid]

PkgMonthly == Pkg(Some(Prod(Some("cozy_premium_monthly"), None)), Some("$rc_monthly"))
PkgLifetime == Pkg(Some(Prod(None, Some("lifetime"))), Some("$rc_lifetime"))
PkgBare == Pkg(None, Some("lifetime"))
PkgShadow == Pkg(Some(Prod(Some("cozy_premium_monthly"), Some("lifetime"))), Some("lifetime"))
PkgEmpty == Pkg(None, None)

\* What Purchases.getOfferings() may return: no current offering, or a
\* current offering with its packages.
Offerings ==
  { [current |-> None] }
    \cup { [current |-> Some([availablePackages |-> ps])] :
             ps \in { <<>>,
                      <<PkgMonthly, PkgLifetime>>,
                      <<PkgBare>>,
                      <<PkgShadow, PkgEmpty>>,
                      <<PkgEmpty, PkgBare, PkgLifetime>> } }

\* offerings?.current?.availablePackages || []
availablePackages(offerings) ==
  IF offerings.current = None THEN <<>> ELSE Val(offerings.current).availablePackages

\* p?.product?.identifier || p?.product?.productIdentifier || p?.identifier
pkgProductId_packageFirst(p) ==
  IF p.identifier # None THEN p.identifier
  ELSE IF p.product = None THEN None
  ELSE IF Val(p.product).identifier # None THEN Val(p.product).identifier
  ELSE Val(p.product).productIdentifier

pkgProductId(p) ==
  IF p.product # None /\ Val(p.product).identifier # None THEN Val(p.product).identifier
  ELSE IF p.product # None /\ Val(p.product).productIdentifier # None
       THEN Val(p.product).productIdentifier
  ELSE p.identifier

\* pkgs.find(p => pid(p) === productId)
findPackage(pkgs, productId) ==
  LET hits == {i \in 1..Len(pkgs) : pkgProductId(pkgs[i]) = Some(productId)}
  IN IF hits = {} THEN None
     ELSE Some(pkgs[CHOOSE i \in hits : \A j \in hits : i <= j])

\* ---- getProducts
RequestLists ==
  { <<>>, <<"lifetime">>, <<"com.cozyhabits.app.points.500", "cozy_premium_monthly">>,
    <<"lifetime", "cozy_premium_monthly", "lifetime">> }

CatalogEnvs ==
  [cfg : {c \in CfgEnvsOf({NetError}) : c.load # None \/ c.configure # None},
   err : {None}, offerings : {[current |-> None]}]
    \cup [cfg : {[load |-> None, configure |-> None]}, err : {Some(NetError)},
          offerings : {[current |-> None]}]
    \cup [cfg : {[load |-> None, configure |-> None]}, err : {None}, offerings : Offerings]

RECURSIVE productsFor(_, _)
\* The requested ids that some package carries, in request order.
productsFor(productIds, pkgs) ==
  IF productIds = <<>> THEN <<>>
  ELSE LET rest == productsFor(Tail(productIds), pkgs)
       IN IF \E i \in 1..Len(pkgs) : pkgProductId(pkgs[i]) = Some(Head(productIds))
          THEN <<[productId |-> Head(productIds)]>> \o rest
          ELSE rest

getProductsNative(s, productIds, e) ==
  LET ec == ensureConfigured(s, e.cfg) IN
  IF ec.threw # None THEN [threw |-> ec.threw, s |-> ec.s, calls |-> ec.calls, value |-> <<>>]
  ELSE
    LET ld == sdk(ec.s, e.cfg.load) IN
    IF ld.threw # None
    THEN [threw |-> ld.threw, s |-> ld.s, calls |-> ec.calls \o ld.calls, value |-> <<>>]
    ELSE
      LET calls == ec.calls \o ld.calls
                     \o <<[fn |-> "getOfferings", err |-> e.err, ret |-> e.offerings]>>
      IN IF e.err # None
         THEN [threw |-> e.err, s |-> ld.s, calls |-> calls, value |-> <<>>]
         ELSE [threw |-> None, s |-> ld.s, calls |-> calls,
               value |-> productsFor(productIds, availablePackages(e.offerings))]

getProducts(s, productIds, e) ==
  IF ~isNative THEN [threw |-> None, s |-> s, calls |-> <<>>, value |-> <<>>]
  ELSE getProductsNative(s, productIds, e)

\* ---- purchase
\* What Purchases.purchasePackage() may resolve to, by the fields the
\* transaction id is looked for in.
Receipt(a, b, c, d, e) ==
  [storeTransactionIdentifier |-> a, storeOrderId |-> b, transactionTransactionIdentifier |-> c,
   transactionIdentifier |-> d, originalPurchaseDate |-> e]

NoReceipt == Receipt(None, None, None, None, None)

PurchaseReturns ==
  { NoReceipt, Receipt(None, Some("GPA.1"), None, Some("t2"), Some("2024-01-01")) }

\* The first of the five places a transaction id may be found in, if any.
transactionIdOf(r) ==
  IF r.storeTransactionIdentifier # None THEN r.storeTransactionIdentifier
  ELSE IF r.storeOrderId # None THEN r.storeOrderId
  ELSE IF r.transactionTransactionIdentifier # None THEN r.transactionTransactionIdentifier
  ELSE IF r.transactionIdentifier # None THEN r.transactionIdentifier
  ELSE r.originalPurchaseDate

PurchaseEnvs ==
  [cfg : {c \in CfgEnvsOf({NetError}) : c.load # None \/ c.configure # None},
   err : {None}, offerings : {[current |-> None]}, buyErr : {None}, buy : {NoReceipt}]
    \cup [cfg : {[load |-> None, configure |-> None]}, err : Opt(Errors) \ {None},
          offerings : {[current |-> None]}, buyErr : {None},
          buy : {NoReceipt}]
    \cup [cfg : {[load |-> None, configure |-> None]}, err : {None}, offerings : Offerings,
          buyErr : {None}, buy : PurchaseReturns]
    \cup [cfg : {[load |-> None, configure |-> None]}, err : {None}, offerings : Offerings,
          buyErr : Opt(Errors) \ {None}, buy : {NoReceipt}]

Outcome(ok, pid, tid, raw, err) ==
  [success |-> ok, productId |-> pid, transactionId |-> tid,
   platform |-> currentPlatform, raw |-> raw, error |-> err]

isCancellation_caseSensitive(error) ==
  LET msg == IF error.message # None THEN Val(error.message) ELSE <<"Purchase failed">>
      code == IF error.code # None THEN error.code ELSE error.errorCode
  IN code = Some("USER_CANCELLED") \/ Includes(msg, CancelWord)

\* code === 'USER_CANCELLED' || msg.toLowerCase().includes('cancel')
isCancellation(error) ==
  LET msg == IF error.message # None THEN Val(error.message) ELSE <<"Purchase failed">>
      code == IF error.code # None THEN error.code ELSE error.errorCode
  IN code = Some("USER_CANCELLED") \/ Includes(ToLowerCase(msg), CancelWord)

\* The catch block of purchase.
purchaseFailure(error) ==
  LET msg == IF error.message # None THEN Val(error.message) ELSE <<"Purchase failed">>
  IN IF isCancellation(error)
     THEN Outcome(FALSE, None, None, None, Some(<<"Purchase cancelled">>))
     ELSE Outcome(FALSE, None, None, Some(error), Some(msg))

NotFoundMessage(productId) ==
  <<"Product not found in RevenueCat Offering: ", productId,
    ". Check RevenueCat Offering + product IDs.">>

purchaseNative(s, productId, e) ==
  LET ec == ensureConfigured(s, e.cfg) IN
  IF ec.threw # None
  THEN [threw |-> ec.threw, s |-> ec.s, calls |-> ec.calls, value |-> None]
  ELSE
    LET ld == sdk(ec.s, e.cfg.load) IN
    IF ld.threw # None
    THEN [threw |-> ld.threw, s |-> ld.s, calls |-> ec.calls \o ld.calls, value |-> None]
    ELSE
      LET c1 == ec.calls \o ld.calls
                  \o <<[fn |-> "getOfferings", err |-> e.err, ret |-> e.offerings]>>
          pkg == findPackage(availablePackages(e.offerings), productId)
          c2 == c1 \o <<[fn |-> "purchasePackage", err |-> e.buyErr, pkg |-> Val(pkg)]>>
      IN IF e.err # None
         THEN [threw |-> None, s |-> ld.s, calls |-> c1,
               value |-> Some(purchaseFailure(Val(e.err)))]
         ELSE IF pkg = None
         THEN [threw |-> None, s |-> ld.s, calls |-> c1,
               value |-> Some(Outcome(FALSE, None, None, None, Some(NotFoundMessage(productId))))]
         ELSE IF e.buyErr # None
         THEN [threw |-> None, s |-> ld.s, calls |-> c2,
               value |-> Some(purchaseFailure(Val(e.buyErr)))]
         ELSE [threw |-> None, s |-> ld.s, calls |-> c2,
               value |-> Some(Outcome(TRUE, Some(productId), transactionIdOf(e.buy),
                                      Some(e.buy), None))]

purchase_noGuard(s, productId, e) == purchaseNative(s, productId, e)

purchase(s, productId, e) ==
  IF ~isNative
  THEN [threw |-> None, s |-> s, calls |-> <<>>,
        value |-> Some([success |-> FALSE, productId |-> None, transactionId |-> None,
                        platform |-> "web", raw |-> None,
                        error |-> Some(<<"Purchases are only available on mobile devices.">>)])]
  ELSE purchaseNative(s, productId, e)

\* ---- restorePurchases
RECURSIVE restoredProducts(_)
\* The productIdentifier of every active entitlement that has one.
restoredProducts(active) ==
  IF active = <<>> THEN <<>>
  ELSE LET ent == Head(active).ent
       IN IF ent # None /\ Val(ent).productIdentifier # None
          THEN <<Val(Val(ent).productIdentifier)>> \o restoredProducts(Tail(active))
          ELSE restoredProducts(Tail(active))

restorePurchases(s, e) ==
  IF ~isNative
  THEN [threw |-> None, s |-> s, calls |-> <<>>,
        value |-> [restored |-> <<>>,
                   error |-> Some(<<"Restore is only available on mobile devices">>)]]
  ELSE
    LET failed(s1, calls, error) ==
          [threw |-> None, s |-> s1, calls |-> calls,
           value |-> [restored |-> <<>>,
                      error |-> IF error.message # None THEN error.message
                                ELSE Some(<<"Failed to restore purchases">>)]]
        ec == ensureConfigured(s, e.cfg)
    IN IF ec.threw # None THEN failed(ec.s, ec.calls, Val(ec.threw))
       ELSE
         LET ld == sdk(ec.s, e.cfg.load) IN
         IF ld.threw # None THEN failed(ld.s, ec.calls \o ld.calls, Val(ld.threw))
         ELSE
           LET calls == ec.calls \o ld.calls
                          \o <<[fn |-> "restorePurchases", ok |-> e.err = None, active |-> e.active]>>
           IN IF e.err # None THEN failed(ld.s, calls, Val(e.err))
              ELSE [threw |-> None, s |-> ld.s, calls |-> calls,
                    value |-> [restored |-> restoredProducts(e.active), error |-> None]]

\* ------------------------------------------------------------------ PremiumProvider
ProfileRows == [is_premium : BOOLEAN, premium_expires_at : Opt(IsoDates)]

DbOutcomes == {"ok", "error", "throw"}

UpdateRow_onlyGrants(prof, id, values) ==
  IF prof[id] = None \/ ~values.is_premium THEN prof ELSE [prof EXCEPT ![id] = Some(values)]

\* .update({...}).eq('id', id): changes the row with that id, if there is one.
UpdateRow(prof, id, values) ==
  IF prof[id] = None THEN prof ELSE [prof EXCEPT ![id] = Some(values)]

NoFetchEnv ==
  [info |-> [cfg |-> [load |-> None, configure |-> None],
             err |-> None, active |-> <<>>],
   update |-> "ok", select |-> "ok", now |-> 0]

NativeFetchEnvs == [info : InfoEnvsOf({NetError}), update : DbOutcomes, select : {"ok"}, now : {0}]

WebFetchEnvs == [info : {NoFetchEnv.info}, update : {"ok"}, select : DbOutcomes, now : Times]

isActive_ignoresExpiry(data, now) == data.is_premium

\* data.is_premium && (!data.premium_expires_at ||
\*   new Date(data.premium_expires_at) > new Date())
isActive(data, now) ==
  /\ data.is_premium
  /\ \/ data.premium_expires_at = None
     \/ ParseDate(Val(data.premium_expires_at)) > now

syncValues_notPremium(nativePremium, expiresAt) ==
  [is_premium |-> FALSE, premium_expires_at |-> None]

\* The payload of the best-effort cache update.
syncValues(nativePremium, expiresAt) ==
  [is_premium |-> nativePremium,
   premium_expires_at |->
     IF expiresAt # None THEN Some(ToISOString(ParseDate(Val(expiresAt)))) ELSE None]

\* fetchPremiumStatus with the closure's user u, from provider state
\* (prem, load), service state s and rows prof, under outcomes e.
fetchPremiumStatus(u, prem, load, s, prof, e) ==
  IF u = None
  THEN [isPremium |-> FALSE, isLoading |-> FALSE, s |-> s, profiles |-> prof,
        threw |-> None, logged |-> FALSE, calls |-> <<>>, dbOps |-> <<>>, now |-> None]
  ELSE IF isAvailable
  THEN
    LET s1 == setAppUserId(s, u)
        chk == checkPremiumStatus(s1, e.info)
        nativePremium == chk.value.isPremium
        expiresAt == chk.value.expiresAt
        values == syncValues(nativePremium, expiresAt)
        upd == [op |-> "update", id |-> Val(u), values |-> values, outcome |-> e.update]
    IN [isPremium |-> nativePremium, isLoading |-> FALSE, s |-> chk.s,
        profiles |-> IF e.update = "ok" THEN UpdateRow(prof, Val(u), values) ELSE prof,
        threw |-> None, logged |-> FALSE,
        calls |-> <<[fn |-> "setAppUserId", id |-> u]>> \o chk.calls,
        dbOps |-> <<upd>>, now |-> None]
  ELSE
    LET data == IF e.select = "ok" THEN prof[Val(u)] ELSE None
        sel == [op |-> "select", id |-> Val(u), data |-> data, outcome |-> e.select]
        readsClock ==
          /\ data # None
          /\ Val(data).is_premium
          /\ Val(data).premium_expires_at # None
    IN [isPremium |-> IF e.select = "ok" /\ data # None THEN isActive(Val(data), e.now) ELSE prem,
        isLoading |-> FALSE, s |-> s, profiles |-> prof,
        threw |-> None, logged |-> e.select # "ok",
        calls |-> <<>>, dbOps |-> <<sel>>,
        now |-> IF readsClock THEN Some(e.now) ELSE None]

FetchEnvs(u) ==
  IF u = None THEN {NoFetchEnv}
  ELSE IF isAvailable THEN NativeFetchEnvs
  ELSE WebFetchEnvs

\* One complete run of fetchPremiumStatus for the closure's user u.
RunFetch(u) ==
  \E e \in FetchEnvs(u) :
  \E r \in {fetchPremiumStatus(u, isPremium, isLoading, svc, profiles, e)} :
    /\ isPremium' = r.isPremium
    /\ isLoading' = r.isLoading
    /\ svc' = r.s
    /\ profiles' = r.profiles
    /\ threw' = r.threw
    /\ result' = [kind |-> "void", logged |-> r.logged]
    /\ sdkCalls' = r.calls
    /\ dbOps' = r.dbOps
    /\ lastNow' = r.now
    /\ lastOp' = "fetchPremiumStatus"
    /\ lastArg' = u

\* useEffect(() => { fetchPremiumStatus() }, [fetchPremiumStatus]) on mount.
Mount ==
  /\ ~mounted
  /\ mounted' = TRUE
  /\ RunFetch(user)
  /\ UNCHANGED <<envVars, user, formVars, asyncVars>>

\* useAuth().user changes: fetchPremiumStatus is rebuilt and the effect reruns.
AuthChange ==
  \E u \in Opt(Users) :
    /\ mounted
    /\ u # user
    /\ user' = u
    /\ RunFetch(u)
    /\ UNCHANGED <<envVars, mounted, formVars, asyncVars>>

RefreshPremiumStatus ==
  /\ mounted
  /\ RunFetch(user)
  /\ UNCHANGED <<envVars, user, mounted, formVars, asyncVars>>

\* The row of an identity is created, changed or removed by another party
\* (sign-up, another device, the backend).
ProfileChanged ==
  \E id \in Users, row \in Opt(ProfileRows) :
    /\ profiles[id] # row
    /\ profiles' = [profiles EXCEPT ![id] = row]
    /\ lastOp' = "profileChanged"
    /\ lastArg' = Some(id)
    /\ threw' = None
    /\ result' = [kind |-> "void", logged |-> FALSE]
    /\ sdkCalls' = <<>>
    /\ dbOps' = <<>>
    /\ lastNow' = None
    /\ UNCHANGED <<envVars, svc, user, isPremium, isLoading, mounted, formVars, asyncVars>>

\* ------------------------------------------------------------------ specifications
PlatformConfigs ==
  { [cap |-> "web", googleKey |-> None, appleKey |-> None],
    [cap |-> "android", googleKey |-> Some("goog_key"), appleKey |-> None],
    [cap |-> "ios", googleKey |-> Some("goog_key"), appleKey |-> None] }

InitEnv ==
  \E c \in PlatformConfigs :
    /\ isNative = isNativePlatform(c.cap)
    /\ currentPlatform = getCurrentPlatform(c.cap)
    /\ googleKey = c.googleKey
    /\ appleKey = c.appleKey

\* The Auth page as first rendered.
InitForm ==
  /\ mode = "signin"
  /\ email = <<>>
  /\ password = <<>>
  /\ isSubmitting = FALSE
  /\ authCalls = <<>>
  /\ authLog = <<>>
  /\ reloadTimer = FALSE

\* No fetchPremiumStatus call is suspended.
InitAsync ==
  /\ flights = EmptyBag
  /\ lastReported = [id \in Users |-> None]
  /\ lastWrite = [id \in Users |-> None]
  /\ nFetches = 0

InitObs ==
  /\ lastOp = "init"
  /\ lastArg = None
  /\ threw = None
  /\ result = [kind |-> "void", logged |-> FALSE]
  /\ sdkCalls = <<>>
  /\ dbOps = <<>>
  /\ lastNow = None

\* ---- the service's operations, called from the UI
IapStep(op, arg, r) ==
  /\ svc' = r.s
  /\ threw' = r.threw
  /\ result' = r.value
  /\ sdkCalls' = r.calls
  /\ dbOps' = <<>>
  /\ lastNow' = None
  /\ lastOp' = op
  /\ lastArg' = arg
  /\ UNCHANGED <<envVars, providerVars, formVars, asyncVars>>

SetAppUserId ==
  \E id \in Opt(Users \cup {""}) :
    IapStep("setAppUserId", id,
            [s |-> setAppUserId(svc, id), threw |-> None, value |-> None, calls |-> <<>>])

GetProducts ==
  \E ids \in RequestLists, e \in CatalogEnvs :
  \E r \in {getProducts(svc, ids, e)} :
    IapStep("getProducts", ids, r)

Purchase ==
  \E productId \in ProductIds, e \in PurchaseEnvs :
  \E r \in {purchase(svc, productId, e)} :
    IapStep("purchase", productId, r)

RestorePurchases ==
  \E e \in InfoEnvsOf(InfraErrors) :
  \E r \in {restorePurchases(svc, e)} :
    IapStep("restorePurchases", None, r)

CheckPremiumStatus ==
  \E e \in InfoEnvsOf({NetError}) :
  \E r \in {checkPremiumStatus(svc, e)} :
    IapStep("checkPremiumStatus", None, r)

IapPlatformConfigs ==
  { [cap |-> "web", googleKey |-> None, appleKey |-> None],
    [cap |-> "android", googleKey |-> Some("goog_key"), appleKey |-> None],
    [cap |-> "android", googleKey |-> None, appleKey |-> Some("appl_key")],
    [cap |-> "ios", googleKey |-> None, appleKey |-> Some("appl_key")] }

InitIAP ==
  /\ \E c \in IapPlatformConfigs :
       /\ isNative = isNativePlatform(c.cap)
       /\ currentPlatform = getCurrentPlatform(c.cap)
       /\ googleKey = c.googleKey
       /\ appleKey = c.appleKey
  /\ svc = NewService
  /\ user = None
  /\ isPremium = FALSE
  /\ isLoading = TRUE
  /\ mounted = FALSE
  /\ profiles = [id \in Users |-> None]
  /\ InitObs
  /\ InitForm
  /\ InitAsync

NextIAP ==
  \/ SetAppUserId
  \/ GetProducts
  \/ Purchase
  \/ RestorePurchases
  \/ CheckPremiumStatus

SpecIAP == InitIAP /\ [][NextIAP]_vars

Init ==
  /\ InitEnv
  /\ svc = NewService
  /\ user \in Opt(Users)
  /\ isPremium = FALSE
  /\ isLoading = TRUE
  /\ mounted = FALSE
  /\ profiles = [id \in Users |-> None]
  /\ InitObs
  /\ InitForm
  /\ InitAsync

Next ==
  \/ Mount
  \/ AuthChange
  \/ RefreshPremiumStatus
  \/ ProfileChanged

Spec == Init /\ [][Next]_vars

\* ------------------------------------------------------------------ Auth page
obsVars == <<lastOp, lastArg, threw, result, sdkCalls, dbOps, lastNow>>

\* What can be typed into the two fields (one-character strings).
Emails == { <<>>, <<" ">>, <<"a", "@", "b">>, <<" ", "a", "@", "b", " ">> }
Passwords == { <<>>, <<"x">> }

RECURSIVE TrimStart(_)
TrimStart(str) ==
  IF str # <<>> /\ Head(str) = " " THEN TrimStart(Tail(str)) ELSE str

RECURSIVE TrimEnd(_)
TrimEnd(str) ==
  IF str # <<>> /\ str[Len(str)] = " " THEN TrimEnd(SubSeq(str, 1, Len(str) - 1)) ELSE str

\* String.prototype.trim()
Trim(str) == TrimEnd(TrimStart(str))

\* What signUp / signIn may reject with: an error with a message, with an
\* empty message, or without one.
AuthErrors ==
  { [message |-> Some("Invalid login credentials")],
    [message |-> Some("")],
    [message |-> None] }

SignUpFallback == "Could not create your account. Try a different email or a stronger password."
SignInFallback == "Could not sign in. Check your email/password and try again."

Toast(title, description) == [ev |-> "toast", title |-> title, description |-> description]

isMissingInfo_emailOnly(em, pw) == em = <<>>

\* if (!email || !password)
isMissingInfo(em, pw) == em = <<>> \/ pw = <<>>

failureMessage_signInFallback(m, err) ==
  IF err.message # None /\ Val(err.message) # "" THEN Val(err.message)
  ELSE SignInFallback

\* err?.message || (mode === 'signup' ? ... : ...)
failureMessage(m, err) ==
  IF err.message # None /\ Val(err.message) # "" THEN Val(err.message)
  ELSE IF m = "signup" THEN SignUpFallback
  ELSE SignInFallback

onResolved_keepsMode(c) ==
  IF c.mode = "signup"
  THEN [mode |-> None, reload |-> FALSE, rejects |-> FALSE,
        events |-> <<Toast("Check your email",
                           "We sent a confirmation email. After confirming, come back and sign in.")>>]
  ELSE [mode |-> None, reload |-> TRUE, rejects |-> FALSE,
        events |-> <<[ev |-> "navigate", to |-> "/"], [ev |-> "scheduleReload", ms |-> 50]>>]

\* The rest of the try block once the remote call of the closure c resolved.
onResolved(c) ==
  IF c.mode = "signup"
  THEN [mode |-> Some("signin"), reload |-> FALSE, rejects |-> FALSE,
        events |-> <<Toast("Check your email",
                           "We sent a confirmation email. After confirming, come back and sign in.")>>]
  ELSE [mode |-> None, reload |-> TRUE, rejects |-> FALSE,
        events |-> <<[ev |-> "navigate", to |-> "/"], [ev |-> "scheduleReload", ms |-> 50]>>]

onRejected_navigates(c, err) ==
  [mode |-> None, reload |-> TRUE, rejects |-> FALSE,
   events |-> <<Toast("Authentication failed", failureMessage(c.mode, err)),
                [ev |-> "navigate", to |-> "/"], [ev |-> "scheduleReload", ms |-> 50]>>]

\* The catch block once the remote call of the closure c rejected with err.
onRejected(c, err) ==
  [mode |-> None, reload |-> FALSE, rejects |-> FALSE,
   events |-> <<Toast("Authentication failed", failureMessage(c.mode, err))>>]

RemoveAt(seq, i) == SubSeq(seq, 1, i - 1) \o SubSeq(seq, i + 1, Len(seq))

\* handleSubmit up to its first await (or to its end, when the input is
\* rejected locally).  Submitting needs an enabled field or button.
SubmitForm ==
  /\ ~isSubmitting
  /\ Len(authCalls) < MaxAuthCalls
  /\ IF isMissingInfo(email, password)
     THEN /\ authLog' = <<Toast("Missing info", "Please enter an email and password.")>>
          /\ isSubmitting' = FALSE
          /\ authCalls' = authCalls
     ELSE /\ authCalls' = Append(authCalls,
                                 [fn |-> IF mode = "signup" THEN "signUp" ELSE "signIn",
                                  email |-> Trim(email), password |-> password, mode |-> mode])
          /\ authLog' = <<[ev |-> "call", fn |-> IF mode = "signup" THEN "signUp" ELSE "signIn",
                           email |-> Trim(email), password |-> password]>>
          /\ isSubmitting' = TRUE
  /\ UNCHANGED <<mode, email, password, reloadTimer>>
  /\ UNCHANGED <<envVars, svc, providerVars, obsVars, asyncVars>>

\* The rest of handleSubmit after its remote call settled (event settled)
\* with outcome r.
Settle(i, settled, r) ==
  /\ mode' = (IF r.mode # None THEN Val(r.mode) ELSE mode)
  /\ authLog' = authLog \o <<settled>> \o r.events \o <<[ev |-> "done", rejects |-> r.rejects]>>
  /\ reloadTimer' = (reloadTimer \/ r.reload)
  /\ isSubmitting' = FALSE
  /\ authCalls' = RemoveAt(authCalls, i)
  /\ UNCHANGED <<email, password>>
  /\ UNCHANGED <<envVars, svc, providerVars, obsVars, asyncVars>>

AuthResolves ==
  \E i \in 1..Len(authCalls) :
    Settle(i, [ev |-> "resolved", fn |-> authCalls[i].fn], onResolved(authCalls[i]))

AuthRejects ==
  \E i \in 1..Len(authCalls), err \in AuthErrors :
    Settle(i, [ev |-> "rejected", fn |-> authCalls[i].fn, err |-> err],
           onRejected(authCalls[i], err))

\* setTimeout(() => window.location.reload(), 50): the page starts over.
ReloadFires ==
  /\ reloadTimer
  /\ mode' = "signin"
  /\ email' = <<>>
  /\ password' = <<>>
  /\ isSubmitting' = FALSE
  /\ authCalls' = <<>>
  /\ authLog' = <<>>
  /\ reloadTimer' = FALSE
  /\ UNCHANGED <<envVars, svc, providerVars, obsVars, asyncVars>>

\* onChange of the email field (disabled while submitting)
SetEmail ==
  \E v \in Emails :
    /\ ~isSubmitting
    /\ v # email
    /\ email' = v
    /\ UNCHANGED <<mode, password, isSubmitting, authCalls, authLog, reloadTimer>>
    /\ UNCHANGED <<envVars, svc, providerVars, obsVars, asyncVars>>

\* onChange of the password field (disabled while submitting)
SetPassword ==
  \E v \in Passwords :
    /\ ~isSubmitting
    /\ v # password
    /\ password' = v
    /\ UNCHANGED <<mode, email, isSubmitting, authCalls, authLog, reloadTimer>>
    /\ UNCHANGED <<envVars, svc, providerVars, obsVars, asyncVars>>

ToggleMode_enabledWhileSubmitting ==
  /\ mode' = (IF mode = "signin" THEN "signup" ELSE "signin")
  /\ UNCHANGED <<email, password, isSubmitting, authCalls, authLog, reloadTimer>>
  /\ UNCHANGED <<envVars, svc, providerVars, obsVars, asyncVars>>

\* onClick of the mode button (disabled while submitting)
ToggleMode ==
  /\ ~isSubmitting
  /\ mode' = (IF mode = "signin" THEN "signup" ELSE "signin")
  /\ UNCHANGED <<email, password, isSubmitting, authCalls, authLog, reloadTimer>>
  /\ UNCHANGED <<envVars, svc, providerVars, obsVars, asyncVars>>

InitAuth ==
  /\ isNative = FALSE
  /\ currentPlatform = "web"
  /\ googleKey = None
  /\ appleKey = None
  /\ svc = NewService
  /\ user = None
  /\ isPremium = FALSE
  /\ isLoading = TRUE
  /\ mounted = FALSE
  /\ profiles = [id \in Users |-> None]
  /\ InitObs
  /\ InitForm
  /\ InitAsync

NextAuth ==
  \/ SubmitForm
  \/ AuthResolves
  \/ AuthRejects
  \/ ReloadFires
  \/ SetEmail
  \/ SetPassword
  \/ ToggleMode

SpecAuth == InitAuth /\ [][NextAuth]_vars

\* ------------------------------------------------------------------ suspended resolutions
\* fetchPremiumStatus call by call: a call suspends at each await and other
\* handlers run meanwhile.  A suspended call is a record holding its
\* closure's user, the await it is at and its local values.

\* customerInfo.entitlements.active as getCustomerInfo may report it here.
AsyncActives ==
  { <<>>,
    <<[name |-> "premium", ent |-> Some(LifetimeEntitlement)]>> }

\* What an awaited SDK call may reject with.
AsyncErrors == Opt({NetError})

NotPremium == [isPremium |-> FALSE, expiresAt |-> None]

\* The suspended calls form a bag: which of two equal calls settles first
\* makes no difference.
Flight(u, pc) ==
  [user |-> u, pc |-> pc, cfgId |-> None, value |-> NotPremium,
   infoCfg |-> <<>>, alone |-> BagCardinality(flights) = 0]

InFlight == BagToSet(flights)

Replace(fl, f, g) == (fl (-) SetToBag({f})) (+) SetToBag({g})

\* The calls already suspended, now overlapped by another one.
Overlapped ==
  [g \in {[f EXCEPT !.alone = FALSE] : f \in InFlight} |->
     CopiesIn(g, flights) + CopiesIn([g EXCEPT !.alone = TRUE], flights)]

\* checkPremiumStatus returned value to the call f of fl (obtained from the
\* SDK configured as infoCfg, or <<>> when the check failed):
\* setIsPremium(nativePremium), then the update is issued.
CheckReturns(fl, f, value, infoCfg) ==
  /\ isPremium' = value.isPremium
  /\ lastReported' = [lastReported EXCEPT ![f.user] = Some(value.isPremium)]
  /\ flights' = Replace(fl, f, [f EXCEPT !.pc = "update", !.value = value,
                                         !.infoCfg = infoCfg])

\* fetchPremiumStatus of the closure with user u, up to its first await.
StartFetch(u) ==
  IF u = None
  THEN /\ isPremium' = FALSE
       /\ isLoading' = FALSE
       /\ UNCHANGED <<svc, flights, lastReported, nFetches>>
  ELSE /\ nFetches < MaxFetches
       /\ nFetches' = nFetches + 1
       /\ isLoading' = isLoading
       /\ IF isAvailable
          THEN /\ svc' = setAppUserId(svc, u)
               /\ IF getApiKey = None
                  THEN CheckReturns(Overlapped (+) SetToBag({Flight(Val(u), "update")}),
                                    Flight(Val(u), "update"), NotPremium, <<>>)
                  ELSE /\ flights' = Overlapped (+) SetToBag({Flight(Val(u), "load")})
                       /\ UNCHANGED <<isPremium, lastReported>>
          ELSE /\ flights' = Overlapped (+) SetToBag({Flight(Val(u), "select")})
               /\ UNCHANGED <<svc, isPremium, lastReported>>

AsyncMount ==
  /\ ~mounted
  /\ mounted' = TRUE
  /\ StartFetch(user)
  /\ UNCHANGED <<envVars, user, profiles, lastWrite, obsVars, formVars>>

AsyncAuthChange ==
  \E u \in Opt(Users) :
    /\ mounted
    /\ u # user
    /\ user' = u
    /\ StartFetch(u)
    /\ UNCHANGED <<envVars, mounted, profiles, lastWrite, obsVars, formVars>>

AsyncRefresh ==
  /\ mounted
  /\ user # None
  /\ StartFetch(user)
  /\ UNCHANGED <<envVars, user, mounted, profiles, lastWrite, obsVars, formVars>>

\* ensureConfigured: the import (and setLogLevel) settled; configure is
\* called with the appUserId the service holds now.
LoadDone ==
  \E f \in InFlight, out \in AsyncErrors :
    /\ f.pc = "load"
    /\ \E r \in {sdk(svc, out)} :
         /\ svc' = r.s
         /\ IF r.threw # None
            THEN CheckReturns(flights, f, NotPremium, <<>>)
            ELSE /\ flights' = Replace(flights, f, [f EXCEPT !.pc = "configure",
                                                             !.cfgId = svc.appUserId])
                 /\ UNCHANGED <<isPremium, lastReported>>
    /\ UNCHANGED <<envVars, user, isLoading, mounted, profiles, lastWrite, nFetches, obsVars, formVars>>

\* ensureConfigured: Purchases.configure settled; this.configured = true;
\* then getCustomerInfo is called.
ConfigureDone ==
  \E f \in InFlight, out \in AsyncErrors :
    /\ f.pc = "configure"
    /\ IF out # None
       THEN /\ CheckReturns(flights, f, NotPremium, <<>>)
            /\ svc' = svc
       ELSE /\ svc' = [svc EXCEPT !.configured = TRUE,
                                  !.sdkConfig = <<f.cfgId>>,
                                  !.nConfigured = Min(@ + 1, MaxConfigures)]
            /\ flights' = Replace(flights, f, [f EXCEPT !.pc = "info"])
            /\ UNCHANGED <<isPremium, lastReported>>
    /\ UNCHANGED <<envVars, user, isLoading, mounted, profiles, lastWrite, nFetches, obsVars, formVars>>

\* checkPremiumStatus: getCustomerInfo settled, answering for the identity
\* the SDK is configured with.
InfoDone ==
  \E f \in InFlight, out \in AsyncErrors, active \in AsyncActives :
    /\ f.pc = "info"
    /\ IF out # None
       THEN /\ active = <<>>
            /\ CheckReturns(flights, f, NotPremium, <<>>)
       ELSE CheckReturns(flights, f, entitlementStatus(PremiumOf(active)), svc.sdkConfig)
    /\ UNCHANGED <<envVars, svc, user, isLoading, mounted, profiles, lastWrite, nFetches, obsVars, formVars>>

\* What is remembered of the updates settled for an identity: the payload
\* of the last one while all were accepted, and whether the call that
\* issued it ever overlapped another; once one was rejected, only that.
Written(prev, values, out, alone) ==
  IF out = "ok" /\ \A w \in prev : w.allOk
  THEN Some([values |-> values, allOk |-> TRUE, alone |-> alone])
  ELSE Some([values |-> syncValues(FALSE, None), allOk |-> FALSE, alone |-> FALSE])

UpdateDone_skipsFinally ==
  \E f \in InFlight, out \in DbOutcomes :
    /\ f.pc = "update"
    /\ \E values \in {syncValues(f.value.isPremium, f.value.expiresAt)} :
         /\ profiles' = (IF out = "ok" THEN UpdateRow(profiles, f.user, values)
                         ELSE profiles)
         /\ lastWrite' = [lastWrite EXCEPT ![f.user] = Written(@, values, out, f.alone)]
    /\ isLoading' = isLoading
    /\ flights' = flights (-) SetToBag({f})
    /\ UNCHANGED <<envVars, svc, user, isPremium, mounted, lastReported, nFetches, obsVars, formVars>>

\* The update settled (its failure is discarded); return; finally.
UpdateDone ==
  \E f \in InFlight, out \in DbOutcomes :
    /\ f.pc = "update"
    /\ \E values \in {syncValues(f.value.isPremium, f.value.expiresAt)} :
         /\ profiles' = (IF out = "ok" THEN UpdateRow(profiles, f.user, values)
                         ELSE profiles)
         /\ lastWrite' = [lastWrite EXCEPT ![f.user] = Written(@, values, out, f.alone)]
    /\ isLoading' = FALSE
    /\ flights' = flights (-) SetToBag({f})
    /\ UNCHANGED <<envVars, svc, user, isPremium, mounted, lastReported, nFetches, obsVars, formVars>>

\* Web fallback: the select settled.
SelectDone ==
  \E f \in InFlight, out \in DbOutcomes :
    /\ f.pc = "select"
    /\ isPremium' = (IF out = "ok" /\ profiles[f.user] # None
                     THEN isActive(Val(profiles[f.user]), 0)
                     ELSE isPremium)
    /\ isLoading' = FALSE
    /\ flights' = flights (-) SetToBag({f})
    /\ UNCHANGED <<envVars, svc, user, mounted, profiles, lastReported, lastWrite, nFetches, obsVars, formVars>>

\* Every identity has a row; nobody else writes the rows.
InitAsyncRun ==
  /\ InitEnv
  /\ svc = NewService
  /\ user \in Opt(Users)
  /\ isPremium = FALSE
  /\ isLoading = TRUE
  /\ mounted = FALSE
  /\ profiles = [id \in Users |->
                   Some([is_premium |-> id = "u1", premium_expires_at |-> None])]
  /\ InitObs
  /\ InitForm
  /\ InitAsync

NextAsync ==
  \/ AsyncMount
  \/ AsyncAuthChange
  \/ AsyncRefresh
  \/ LoadDone
  \/ ConfigureDone
  \/ InfoDone
  \/ UpdateDone
  \/ SelectDone

SpecAsync == InitAsyncRun /\ [][NextAsync]_vars

\* Every remote call a suspended resolution awaits eventually settles.
SpecAsyncFair ==
  /\ SpecAsync
  /\ WF_vars(LoadDone)
  /\ WF_vars(ConfigureDone)
  /\ WF_vars(InfoDone)
  /\ WF_vars(UpdateDone)
  /\ WF_vars(SelectDone)

\* ------------------------------------------------------------------ properties
\* The last operation was a fetchPremiumStatus for a signed-in user.
FetchedSignedIn == lastOp = "fetchPremiumStatus" /\ lastArg # None

\* The requests of the last operation to the cache store, by kind.
Selects == {i \in 1..Len(dbOps) : dbOps[i].op = "select"}
Updates == {i \in 1..Len(dbOps) : dbOps[i].op = "update"}

\* The SDK calls of the last operation with the given name.
CallsOf(fn) == {i \in 1..Len(sdkCalls) : sdkCalls[i].fn = fn}

\* C1: whenever fetchPremiumStatus for a signed-in user hits an exception
\* during resolution, the call does not propagate it and isPremium is false
\* afterwards, whatever it was before.
C1_FailClosed ==
  (FetchedSignedIn /\ result.logged) => (threw = None /\ isPremium = FALSE)

\* C2: without native capability, fetchPremiumStatus for a signed-in identity
\* that has no cache record completes without throwing and leaves
\* isPremium = false, from any prior provider state.
C2_NoRecordNotPremium ==
  (/\ FetchedSignedIn
   /\ ~isNative
   /\ \E i \in Selects : dbOps[i].outcome = "ok" /\ dbOps[i].data = None)
    => (threw = None /\ isPremium = FALSE)

\* C3: without native capability, when the record exists and the read
\* succeeds, isPremium is set to: stored flag true and (no expiry stored or
\* the expiry is later than the current time).
C3_ActiveFromRecord ==
  \A i \in Selects :
    (FetchedSignedIn /\ ~isNative /\ dbOps[i].outcome = "ok" /\ dbOps[i].data # None)
      => LET row == Val(dbOps[i].data) IN
         isPremium =
           (/\ row.is_premium = TRUE
            /\ \/ row.premium_expires_at = None
               \/ \E now \in lastNow : Val(row.premium_expires_at).t > now)

\* C3 witness: a record whose flag is true and whose expiry lies in the past
\* was read, and the user is not premium.
C3_Witness ==
  /\ FetchedSignedIn /\ ~isNative
  /\ \E i \in Selects :
       /\ dbOps[i].outcome = "ok" /\ dbOps[i].data # None
       /\ Val(dbOps[i].data).is_premium
       /\ Val(dbOps[i].data).premium_expires_at # None
       /\ \E now \in lastNow : Val(Val(dbOps[i].data).premium_expires_at).t < now
  /\ ~isPremium

\* The expiry the SDK reported for the entitlement: expirationDate, or else
\* expiresDate, or else none (as an instant).
ReportedExpiry(ent) ==
  IF ent.expirationDate # None THEN Some(Val(ent.expirationDate).t)
  ELSE IF ent.expiresDate # None THEN Some(Val(ent.expiresDate).t)
  ELSE None

\* The truthy entitlements named "premium" among the entries of an active map.
TruthyPremium(active) ==
  {x \in UNION {active[j].ent : j \in {k \in 1..Len(active) : active[k].name = "premium"}} : TRUE}

\* C4: on a native runtime, when the SDK query succeeds, isPremium is true
\* exactly when the customer info holds a truthy active entitlement named
\* "premium"; exactly one cache update is attempted, for the row of the
\* signed-in identity, carrying that isPremium and the expiry taken from
\* expirationDate, else expiresDate, else null; the outcome of the update
\* changes neither the value set nor raises anything.
C4_NativeEntitlement ==
  \A i \in CallsOf("getCustomerInfo") :
    (FetchedSignedIn /\ isNative /\ sdkCalls[i].ok)
      => LET ents == TruthyPremium(sdkCalls[i].active) IN
         /\ threw = None
         /\ isPremium = (ents # {})
         /\ Len(dbOps) = 1
         /\ dbOps[1].op = "update"
         /\ dbOps[1].id = Val(lastArg)
         /\ dbOps[1].values.is_premium = isPremium
         /\ { d.t : d \in dbOps[1].values.premium_expires_at }
              = UNION {ReportedExpiry(x) : x \in ents}

\* C4 witness: the entitlement carried only expiresDate, the update was
\* rejected, and the user is premium.
C4_Witness ==
  /\ FetchedSignedIn /\ isNative /\ isPremium
  /\ \E i \in CallsOf("getCustomerInfo") :
       /\ sdkCalls[i].ok
       /\ \E x \in TruthyPremium(sdkCalls[i].active) :
            x.expirationDate = None /\ x.expiresDate # None
  /\ Len(dbOps) = 1 /\ dbOps[1].outcome = "throw"
  /\ dbOps[1].values.premium_expires_at # None

\* C10: within one fetchPremiumStatus call the two strategies exclude each
\* other: with native capability the call never reads the cache record and
\* attempts exactly one cache update; without it the call makes no SDK
\* call, no setAppUserId call and no cache write, and leaves the cache and
\* the service unchanged.
C10_ExclusiveStrategies ==
  [][(lastOp' = "fetchPremiumStatus" /\ lastArg' # None)
       => IF isNative
          THEN /\ \A i \in 1..Len(dbOps') : dbOps'[i].op # "select"
               /\ Cardinality({i \in 1..Len(dbOps') : dbOps'[i].op = "update"}) = 1
               /\ Len(sdkCalls') >= 1 /\ sdkCalls'[1].fn = "setAppUserId"
          ELSE /\ sdkCalls' = <<>>
               /\ \A i \in 1..Len(dbOps') : dbOps'[i].op # "update"
               /\ Cardinality({i \in 1..Len(dbOps') : dbOps'[i].op = "select"}) = 1
               /\ profiles' = profiles
               /\ svc' = svc]_vars

\* C10 witness: a resolution without native capability read the record of
\* the signed-in identity and found the user premium.
C10_Witness ==
  /\ FetchedSignedIn /\ ~isNative /\ isPremium
  /\ sdkCalls = <<>>
  /\ Selects # {} /\ Updates = {}


\* ---- native resolution when the SDK check fails
\* C19: on a native runtime, a resolution whose SDK check failed (no API
\* key, import or configure error, getCustomerInfo error) raises nothing,
\* sets isPremium to false and attempts exactly one cache update for the
\* identity's row carrying is_premium = false and premium_expires_at =
\* null; when the store accepts it and the row exists, the row holds those
\* values afterwards whatever it held before.
C19_FailedCheckWritesFalse ==
  [][(/\ lastOp' = "fetchPremiumStatus" /\ lastArg' # None /\ isNative
      /\ \A i \in 1..Len(sdkCalls') :
           sdkCalls'[i].fn = "getCustomerInfo" => ~sdkCalls'[i].ok)
       => /\ threw' = None
          /\ isPremium' = FALSE
          /\ Len(dbOps') = 1
          /\ dbOps'[1].op = "update"
          /\ dbOps'[1].id = Val(lastArg')
          /\ dbOps'[1].values = [is_premium |-> FALSE, premium_expires_at |-> None]
          /\ (dbOps'[1].outcome = "ok" /\ profiles[Val(lastArg')] # None)
               => profiles'[Val(lastArg')]
                    = Some([is_premium |-> FALSE, premium_expires_at |-> None])]_vars

\* C19 witness: getCustomerInfo failed, the update was accepted and the
\* identity's row says not premium.
C19_Witness ==
  /\ FetchedSignedIn /\ isNative /\ ~isPremium
  /\ \E i \in CallsOf("getCustomerInfo") : ~sdkCalls[i].ok
  /\ Len(dbOps) = 1 /\ dbOps[1].outcome = "ok"
  /\ profiles[Val(lastArg)] = Some([is_premium |-> FALSE, premium_expires_at |-> None])

\* ---- the purchase service
SdkBackedOps == {"getProducts", "purchase", "restorePurchases", "checkPremiumStatus"}

\* C5: on a native runtime with an API key, Purchases.configure is invoked
\* (and the SDK configured) exactly once per change of the associated
\* identity: after the first SDK-backed operation has configured the SDK it
\* is not configured again until the identity changes, also when
\* setAppUserId is called again with the identity already associated.
\* svc.nConfigured counts the configure calls that completed since the
\* associated identity last changed.
C5_ConfigureOncePerIdentity ==
  (isNative /\ getApiKey # None) => svc.nConfigured <= 1

\* C6: on a native runtime, purchase, getProducts, restorePurchases and
\* checkPremiumStatus never reject to their caller.
C6_NeverRejects ==
  (isNative /\ lastOp \in SdkBackedOps) => threw = None

\* C7: on a non-native runtime no SDK call is ever made and the configured
\* flag stays false; purchase returns success = false with platform 'web'
\* and an error message, restorePurchases an empty list with an error
\* message, getProducts an empty list, checkPremiumStatus isPremium = false.
C7_WebUnavailable ==
  ~isNative =>
    /\ sdkCalls = <<>>
    /\ svc.configured = FALSE /\ svc.sdkLoaded = FALSE /\ svc.sdkConfig = <<>>
    /\ lastOp \in SdkBackedOps => threw = None
    /\ lastOp = "purchase" =>
         /\ result # None
         /\ Val(result).success = FALSE
         /\ Val(result).platform = "web"
         /\ Val(result).error # None
    /\ lastOp = "restorePurchases" => (result.restored = <<>> /\ result.error # None)
    /\ lastOp = "getProducts" => result = <<>>
    /\ lastOp = "checkPremiumStatus" => result.isPremium = FALSE

\* C7 witness: a purchase was attempted on a non-native runtime after an
\* identity had been associated.
C7_Witness ==
  ~isNative /\ lastOp = "purchase" /\ svc.appUserId # None

\* The calls of the last operation that threw inside purchase's try block.
FailedPurchaseCalls ==
  {i \in CallsOf("getOfferings") \cup CallsOf("purchasePackage") : sdkCalls[i].err # None}

\* The message contains "cancel", compared letter by letter in any case.
MentionsCancel(message) ==
  \E m \in message :
    \E i \in 1..Len(m) :
      /\ i + 5 <= Len(m)
      /\ \A k \in 1..6 : Lower(m[i + k - 1]) = CancelWord[k]

CancelledShape(r) ==
  r.success = FALSE /\ r.error = Some(<<"Purchase cancelled">>) /\ r.raw = None

FailedShape(r, error) ==
  /\ r.success = FALSE
  /\ r.error = (IF error.message # None THEN error.message ELSE Some(<<"Purchase failed">>))
  /\ r.raw = Some(error)

\* C8 as stated: a failure of the catalog query or of the purchase call is
\* reported as 'Purchase cancelled' without raw payload when the error's
\* code is 'USER_CANCELLED' or its message contains "cancel" in any case;
\* every other failure carries the error's message (or 'Purchase failed')
\* and the raw error.
C8_CancelByCodeOrMessage ==
  \A i \in FailedPurchaseCalls :
    lastOp = "purchase" =>
      LET error == Val(sdkCalls[i].err) IN
      IF error.code = Some("USER_CANCELLED") \/ MentionsCancel(error.message)
      THEN CancelledShape(Val(result))
      ELSE FailedShape(Val(result), error)

\* C8 as amended: the code compared with 'USER_CANCELLED' is the error's
\* code or, when it has no code, its errorCode.
C8_CancelByEffectiveCode ==
  \A i \in FailedPurchaseCalls :
    lastOp = "purchase" =>
      LET error == Val(sdkCalls[i].err) IN
      IF \/ error.code = Some("USER_CANCELLED")
         \/ (error.code = None /\ error.errorCode = Some("USER_CANCELLED"))
         \/ MentionsCancel(error.message)
      THEN CancelledShape(Val(result))
      ELSE FailedShape(Val(result), error)

\* C8 witness: the purchase call failed with a message spelling "CANcel" in
\* mixed case and another code, and the outcome is the cancellation.
C8_Witness ==
  /\ lastOp = "purchase"
  /\ \E i \in CallsOf("purchasePackage") :
       /\ sdkCalls[i].err # None
       /\ Val(sdkCalls[i].err).message = Some(MsgCancelled)
       /\ Val(sdkCalls[i].err).code = Some("NETWORK_ERROR")
  /\ CancelledShape(Val(result))

\* The product identifier of a package: the first present one of the
\* product's identifier, the product's productIdentifier, the package's own.
ResolvedId(p) ==
  LET candidates ==
        (IF p.product = None THEN <<>>
         ELSE <<Val(p.product).identifier, Val(p.product).productIdentifier>>)
          \o <<p.identifier>>
      present == {i \in 1..Len(candidates) : candidates[i] # None}
  IN IF present = {} THEN None
     ELSE candidates[CHOOSE i \in present : \A j \in present : i <= j]

\* C9: on a native runtime, when no package of the current offering has the
\* requested product identifier (also with no current offering or no
\* packages), purchase returns success = false with a message naming the
\* requested identifier, raises nothing and never invokes purchasePackage;
\* purchasePackage is only ever invoked with a package whose identifier
\* equals the requested one.
C9_UnknownProduct ==
  (isNative /\ lastOp = "purchase") =>
    /\ \A i \in CallsOf("getOfferings") :
         LET pkgs == IF sdkCalls[i].ret.current = None THEN <<>>
                     ELSE Val(sdkCalls[i].ret.current).availablePackages
         IN (/\ sdkCalls[i].err = None
             /\ \A k \in 1..Len(pkgs) : ResolvedId(pkgs[k]) # Some(lastArg))
              => /\ threw = None
                 /\ result # None
                 /\ Val(result).success = FALSE
                 /\ \E m \in Val(result).error : \E k \in 1..Len(m) : m[k] = lastArg
                 /\ CallsOf("purchasePackage") = {}
    /\ \A j \in CallsOf("purchasePackage") : ResolvedId(sdkCalls[j].pkg) = Some(lastArg)

\* C9 witness: the requested identifier occurs in the offering only as a
\* package identifier shadowed by the product's own, and the purchase
\* reported the product as not found.
C9_Witness ==
  /\ isNative /\ lastOp = "purchase"
  /\ \E i \in CallsOf("getOfferings") :
       /\ sdkCalls[i].err = None
       /\ sdkCalls[i].ret.current # None
       /\ \E k \in 1..Len(Val(sdkCalls[i].ret.current).availablePackages) :
            Val(sdkCalls[i].ret.current).availablePackages[k].identifier = Some(lastArg)
  /\ CallsOf("purchasePackage") = {}
  /\ Val(result).success = FALSE
  /\ Val(result).error = Some(NotFoundMessage(lastArg))


\* ------------------------------------------------------------------ Auth page properties
\* The events the step appends to the log of the current handleSubmit.
NewEvents == SubSeq(authLog', Len(authLog) + 1, Len(authLog'))
Settles(kind) ==
  /\ authCalls # <<>>
  /\ Len(authLog') > Len(authLog)
  /\ authLog'[Len(authLog) + 1].ev = kind
CountEv(events, kind) == Cardinality({ i \in 1..Len(events) : events[i].ev = kind })
ConfirmToasts(events) ==
  { i \in 1..Len(events) : events[i].ev = "toast" /\ events[i].title = "Check your email" }
FailureToasts(events) ==
  { i \in 1..Len(events) : events[i].ev = "toast" /\ events[i].title = "Authentication failed" }
StartsRun == Len(authLog') = 1 /\ authLog' # authLog

\* C11: in either mode a handleSubmit that runs with an empty email or an
\* empty password calls neither signUp nor signIn, shows exactly the
\* 'Missing info' notification, leaves the mode alone and neither navigates
\* nor schedules a reload.
C11_MissingInfoIsLocal ==
  [][ (StartsRun /\ ~isSubmitting /\ (email = <<>> \/ password = <<>>)) =>
        /\ authCalls' = authCalls
        /\ authLog' = <<Toast("Missing info", "Please enter an email and password.")>>
        /\ mode' = mode
        /\ reloadTimer' = reloadTimer
        /\ isSubmitting' = FALSE ]_vars

C11_Witness ==
  /\ mode = "signup"
  /\ email # <<>>
  /\ password = <<>>
  /\ authCalls = <<>>
  /\ Len(authLog) = 1
  /\ authLog[1].ev = "toast"
  /\ authLog[1].title = "Missing info"

\* C12: when the sign-up call of a 'signup' submission resolves, exactly
\* one confirm-by-email notification is shown, the mode becomes 'signin',
\* nothing navigates or schedules a reload and no sign-in call is made; when
\* it rejects, the mode stays 'signup' and no confirmation is shown.
C12_SignUpOutcome ==
  [][ (authCalls # <<>> /\ authCalls[1].fn = "signUp") =>
        /\ Settles("resolved") =>
             /\ Cardinality(ConfirmToasts(NewEvents)) = 1
             /\ CountEv(NewEvents, "toast") = 1
             /\ mode' = "signin"
             /\ CountEv(NewEvents, "navigate") = 0
             /\ CountEv(NewEvents, "scheduleReload") = 0
             /\ reloadTimer' = reloadTimer
             /\ authCalls' = <<>>
        /\ Settles("rejected") =>
             /\ mode = "signup"
             /\ mode' = "signup"
             /\ ConfirmToasts(NewEvents) = {} ]_vars

C12_Witness ==
  /\ Len(authLog) = 4
  /\ authLog[2].ev = "resolved"
  /\ authLog[2].fn = "signUp"
  /\ authLog[3].ev = "toast"
  /\ authLog[3].title = "Check your email"
  /\ mode = "signin"
  /\ ~reloadTimer

\* C13: navigation to "/" and the scheduled reload happen only in the step
\* in which a sign-in call resolved, in the order resolved, navigate,
\* schedule reload; a rejected sign-in call navigates nowhere and schedules
\* nothing.
C13_NavigateAfterSignIn ==
  [][ /\ (\/ CountEv(NewEvents, "navigate") > 0
          \/ CountEv(NewEvents, "scheduleReload") > 0
          \/ (reloadTimer' /\ ~reloadTimer)) =>
            /\ authCalls # <<>>
            /\ authCalls[1].fn = "signIn"
            /\ mode = "signin"
            /\ Len(NewEvents) = 4
            /\ NewEvents[1] = [ev |-> "resolved", fn |-> "signIn"]
            /\ NewEvents[2] = [ev |-> "navigate", to |-> "/"]
            /\ NewEvents[3].ev = "scheduleReload"
            /\ reloadTimer'
      /\ (Settles("resolved") /\ authCalls[1].fn = "signIn") =>
            /\ CountEv(NewEvents, "navigate") = 1
            /\ CountEv(NewEvents, "scheduleReload") = 1
      /\ Settles("rejected") =>
            /\ CountEv(NewEvents, "navigate") = 0
            /\ CountEv(NewEvents, "scheduleReload") = 0
            /\ reloadTimer' = reloadTimer ]_vars

C13_Witness ==
  /\ Len(authLog) = 5
  /\ authLog[2] = [ev |-> "resolved", fn |-> "signIn"]
  /\ authLog[3].ev = "navigate"
  /\ authLog[4].ev = "scheduleReload"
  /\ reloadTimer

\* C14: when signUp or signIn rejects, handleSubmit completes without
\* rejecting and shows exactly one 'Authentication failed' notification,
\* described by the error's message when it has a non-empty one and
\* otherwise by the fallback text of the mode.
C14_FailureNotification ==
  [][ Settles("rejected") =>
        /\ NewEvents[Len(NewEvents)] = [ev |-> "done", rejects |-> FALSE]
        /\ CountEv(NewEvents, "toast") = 1
        /\ Cardinality(FailureToasts(NewEvents)) = 1
        /\ \A i \in FailureToasts(NewEvents) :
             NewEvents[i].description =
               (IF NewEvents[1].err.message \notin {None, Some("")}
                THEN Val(NewEvents[1].err.message)
                ELSE IF mode = "signup"
                     THEN "Could not create your account. Try a different email or a stronger password."
                     ELSE "Could not sign in. Check your email/password and try again.") ]_vars

C14_Witness ==
  /\ Len(authLog) = 4
  /\ authLog[2].ev = "rejected"
  /\ authLog[2].fn = "signUp"
  /\ authLog[2].err.message = None
  /\ authLog[3].ev = "toast"
  /\ authLog[3].title = "Authentication failed"
  /\ authLog[3].description = SignUpFallback
  /\ mode = "signup"

\* C20: isSubmitting is true exactly while a remote call of handleSubmit is
\* outstanding, at most one such call is outstanding, and the mode is the
\* one the outstanding call was started in.
C20_SubmittingGuards ==
  /\ isSubmitting = (authCalls # <<>>)
  /\ Len(authCalls) <= 1
  /\ \A i \in 1..Len(authCalls) : authCalls[i].mode = mode
  /\ (authLog # <<>> /\ authLog[Len(authLog)].ev \in {"done", "toast"}) => ~isSubmitting

C20_Witness ==
  /\ isSubmitting
  /\ Len(authCalls) = 1
  /\ authCalls[1].fn = "signUp"
  /\ mode = "signup"



\* C22: signUp and signIn are never called with an empty email argument or
\* an empty password argument, whatever was entered in the form.
C22_NoEmptyArguments ==
  \A i \in 1..Len(authCalls) :
    authCalls[i].email # <<>> /\ authCalls[i].password # <<>>

\* ------------------------------------------------------------------ suspended resolutions: properties
\* No call for the identity is suspended.
Quiescent(id) == \A f \in InFlight : f.user # id

\* C15: on a native runtime, a resolution for identity X that has set
\* isPremium and issued its cache update from an SDK answer obtained that
\* answer while the SDK was configured with X.
C15_OwnIdentityOnly ==
  \A f \in InFlight :
    (isNative /\ f.pc = "update" /\ f.infoCfg # <<>>) => f.infoCfg = <<Some(f.user)>>

\* C16: once the provider has run the resolution for a signed-out user,
\* isPremium is false for as long as nobody is signed in.
C16_SignedOutNotPremium ==
  (mounted /\ user = None) => ~isPremium

\* C17: whenever the service holds configured = true, the identity the SDK
\* was last configured with is the service's current appUserId.
C17_ConfiguredMatchesIdentity ==
  svc.configured => svc.sdkConfig = <<svc.appUserId>>

\* C18 as stated: on a native runtime, once no resolution for an identity is
\* in flight and every update for it was accepted, the flag of its cache
\* record equals what the SDK check reported last for it.
C18_CacheEqualsLastReport ==
  \A id \in Users :
    (/\ isNative
     /\ Quiescent(id)
     /\ \E w \in lastWrite[id] : w.allOk)
      => /\ profiles[id] # None
         /\ lastReported[id] = Some(Val(profiles[id]).is_premium)

\* C18 amended: in the same situation the cache record is the payload of
\* the update that settled last; it carries the last reported state when
\* the resolution that issued it overlapped no other.
C18_LastWriteWins ==
  \A id \in Users :
    \A w \in lastWrite[id] :
      (isNative /\ Quiescent(id) /\ w.allOk)
        => /\ profiles[id] = Some(w.values)
           /\ w.alone => lastReported[id] = Some(w.values.is_premium)

\* C18 witness: a resolution that overlapped no other turned the record of
\* u2 to premium, and nothing is in flight.
C18_Witness ==
  /\ isNative
  /\ BagCardinality(flights) = 0
  /\ \E w \in lastWrite["u2"] : w.allOk /\ w.alone /\ w.values.is_premium
  /\ profiles["u2"] = Some([is_premium |-> TRUE, premium_expires_at |-> None])
  /\ lastReported["u2"] = Some(TRUE)


\* C21: when every awaited remote call eventually settles, isLoading
\* becomes false once the provider has started its first resolution and
\* whenever a resolution is in flight, on every path; and once it is false
\* no step makes it true again.
C21_LoadingEnds ==
  /\ mounted ~> ~isLoading
  /\ (BagCardinality(flights) > 0) ~> ~isLoading
  /\ [][~isLoading => ~isLoading']_vars

\* C21 witness: a refresh on a native runtime ran to its end after the
\* first resolution, and isLoading is false.
C21_Witness ==
  /\ isNative
  /\ mounted
  /\ ~isLoading
  /\ nFetches = 2
  /\ BagCardinality(flights) = 0
  /\ \E id \in Users : lastWrite[id] # None

====
